---- MODULE Spec2Model ----
(***************************************************************************)
(* Model of the personal finance tracker: FinancialRecord, FinanceTracker  *)
(* (plans, trash_bin, data_file) and the JSON persistence round trip.      *)
(*                                                                         *)
(* Text is a sequence of character codes, so that strip(), isoformat(),    *)
(* fromisoformat() and the lexicographic order of str are computed.        *)
(* Amounts are integers (minor units).                                     *)
(***************************************************************************)
EXTENDS Integers, Sequences, FiniteSets, TLC

\* ------------------------------------------------------------------ bounds
\* Most FinancialRecord objects alive in one process run.
MaxRecords == 2

\* Most calls of save_data in one process run that end in an OSError.
MaxSaveErrors == 1

\* ------------------------------------------------------------------- text
Char == [space |-> 32, dash |-> 45, zero |-> 48, nine |-> 57]

RECURSIVE Digits(_, _)
\* n written in decimal, zero padded to w digits (the %04d / %02d of isoformat).
Digits(n, w) ==
    IF w = 0 THEN << >>
    ELSE Append(Digits(n \div 10, w - 1), Char.zero + (n % 10))

IsDigit(c) == c >= Char.zero /\ c <= Char.nine

AllDigits(s) == \A k \in 1..Len(s) : IsDigit(s[k])

RECURSIVE Num(_)
\* int() of a string of decimal digits.
Num(s) ==
    IF s = << >> THEN 0
    ELSE 10 * Num(SubSeq(s, 1, Len(s) - 1)) + (s[Len(s)] - Char.zero)

RECURSIVE LStrip(_)
LStrip(s) ==
    IF s # << >> /\ Head(s) = Char.space THEN LStrip(Tail(s)) ELSE s

RECURSIVE RStrip(_)
RStrip(s) ==
    IF s # << >> /\ s[Len(s)] = Char.space
    THEN RStrip(SubSeq(s, 1, Len(s) - 1)) ELSE s

\* str.strip()
Strip(s) == RStrip(LStrip(s))

RECURSIVE StrLess(_, _)
\* a < b on str: lexicographic by code point, a proper prefix is smaller.
StrLess(a, b) ==
    IF b = << >> THEN FALSE
    ELSE IF a = << >> THEN TRUE
    ELSE IF Head(a) # Head(b) THEN Head(a) < Head(b)
    ELSE StrLess(Tail(a), Tail(b))

\* ------------------------------------------------------------------ dates
Date(y, m, d) == [year |-> y, month |-> m, day |-> d]

IsLeap(y) == (y % 4 = 0 /\ y % 100 # 0) \/ y % 400 = 0

DaysInMonth(y, m) ==
    IF m = 2 THEN (IF IsLeap(y) THEN 29 ELSE 28)
    ELSE IF m \in {4, 6, 9, 11} THEN 30 ELSE 31

ValidYMD(y, m, d) ==
    /\ y >= 1
    /\ m >= 1 /\ m <= 12
    /\ d >= 1 /\ d <= DaysInMonth(y, m)

\* datetime.date.isoformat(): YYYY-MM-DD
isoformat(d) ==
    Digits(d.year, 4) \o <<Char.dash>> \o Digits(d.month, 2)
        \o <<Char.dash>> \o Digits(d.day, 2)

\* datetime.date.fromisoformat(s) does not raise ValueError
IsIsoDate(s) ==
    /\ Len(s) = 10
    /\ s[5] = Char.dash /\ s[8] = Char.dash
    /\ AllDigits(SubSeq(s, 1, 4)) /\ AllDigits(SubSeq(s, 6, 7))
    /\ AllDigits(SubSeq(s, 9, 10))
    /\ ValidYMD(Num(SubSeq(s, 1, 4)), Num(SubSeq(s, 6, 7)), Num(SubSeq(s, 9, 10)))

fromisoformat(s) ==
    Date(Num(SubSeq(s, 1, 4)), Num(SubSeq(s, 6, 7)), Num(SubSeq(s, 9, 10)))

\* datetime.datetime.strptime(s, '%m-%d-%Y') does not raise ValueError
IsMDY(s) ==
    /\ Len(s) = 10
    /\ s[3] = Char.dash /\ s[6] = Char.dash
    /\ AllDigits(SubSeq(s, 1, 2)) /\ AllDigits(SubSeq(s, 4, 5))
    /\ AllDigits(SubSeq(s, 7, 10))
    /\ ValidYMD(Num(SubSeq(s, 7, 10)), Num(SubSeq(s, 1, 2)), Num(SubSeq(s, 4, 5)))

strptime(s) ==
    Date(Num(SubSeq(s, 7, 10)), Num(SubSeq(s, 1, 2)), Num(SubSeq(s, 4, 5)))

\* ---------------------------------------------------------- FinancialRecord
\* Optional[str]: None, or a str.
None == [null |-> TRUE, text |-> << >>]

Str(s) == [null |-> FALSE, text |-> s]

\* truth value of an Optional[str]: None and "" are falsy
Truthy(v) == ~v.null /\ v.text # << >>

\* FinancialRecord.__init__: stores its arguments, validates nothing.
\* oid is the identity of the object made.
FinancialRecord(oid, date, description, amount, due_date, record_type) ==
    [oid |-> oid, date |-> date, description |-> description,
     amount |-> amount, due_date |-> due_date, record_type |-> record_type]

\* to_dict writing the kind under the key 'type', which from_dict does not read
to_dict_type_key(r) ==
    [date |-> isoformat(r.date), description |-> r.description,
     amount |-> r.amount, due_date |-> r.due_date,
     type |-> r.record_type]

to_dict(r) ==
    [date |-> isoformat(r.date), description |-> r.description,
     amount |-> r.amount, due_date |-> r.due_date,
     record_type |-> r.record_type]

\* dict.get(key, default)
Get(d, key, default) == IF key \in DOMAIN d THEN d[key] ELSE default

\* from_dict(data) returns (no KeyError, no ValueError)
CanFromDict(data) ==
    /\ "date" \in DOMAIN data
    /\ IsIsoDate(data.date)
    /\ "description" \in DOMAIN data
    /\ "amount" \in DOMAIN data

from_dict(oid, data) ==
    FinancialRecord(oid, fromisoformat(data.date), data.description,
                    data.amount, Get(data, "due_date", None),
                    Get(data, "record_type", "expense"))

\* -------------------------------------------------------------- persistence
\* [f(s[1]), ..., f(s[n])] for the list comprehensions of save_data
DictsOf(recs) == [k \in 1..Len(recs) |-> to_dict(recs[k])]

\* the dict save_data builds
SaveDoc(pl, tr) == [plans |-> DictsOf(pl), trash_bin |-> DictsOf(tr)]

\* The data file: absent, or a text that is a JSON document (valid, doc) or
\* not one (an empty or cut-off text included).
NoDoc == [plans |-> << >>, trash_bin |-> << >>]

AbsentFile == [exists |-> FALSE, valid |-> FALSE, doc |-> NoDoc]

BrokenFile == [exists |-> TRUE, valid |-> FALSE, doc |-> NoDoc]

\* json.dump(data, f, indent=2) run to completion, and the file closed.
\* str, int, None, list and dict with str keys are written without loss.
json_dump(data) == [exists |-> TRUE, valid |-> TRUE, doc |-> data]

\* json.load(f); raises JSONDecodeError unless f.valid
json_load(f) == f.doc

\* save_data(): what the data file can be afterwards.
\*   "ok"      open() and json.dump() complete;
\*   "oserror" open(data_file, 'w') raises (location not writable): the file
\*             is untouched, the except clause prints and returns;
\*   "killed"  the process is stopped during save_data: before open() the old
\*             file is intact, after open(..., 'w') it is emptied or partly
\*             written, after the with block it is complete.
SaveOutcomes == {"ok", "oserror", "killed"}

save_data(pl, tr, f, outcome) ==
    IF outcome = "ok" THEN {json_dump(SaveDoc(pl, tr))}
    ELSE IF outcome = "oserror" THEN {f}
    ELSE {f, BrokenFile, json_dump(SaveDoc(pl, tr))}

SaveMessages(outcome) ==
    IF outcome = "oserror" THEN <<"Error saving data">> ELSE << >>

\* load_data() on a tracker whose lists are pl0, tr0.  Line 182 assigns
\* self.plans before line 183 builds the trash list.
load_data(pl0, tr0, f) ==
    IF ~f.exists
    THEN [plans |-> pl0, trash_bin |-> tr0, printed |-> << >>]
    ELSE IF ~f.valid
    THEN [plans |-> pl0, trash_bin |-> tr0, printed |-> <<"Error loading data">>]
    ELSE LET data == json_load(f)
             pd == Get(data, "plans", << >>)
             td == Get(data, "trash_bin", << >>)
             pl == [k \in 1..Len(pd) |-> from_dict(k, pd[k])]
             tr == [k \in 1..Len(td) |-> from_dict(Len(pd) + k, td[k])]
         IN  IF \E k \in 1..Len(pd) : ~CanFromDict(pd[k])
             THEN [plans |-> pl0, trash_bin |-> tr0,
                   printed |-> <<"Error loading data">>]
             ELSE IF \E k \in 1..Len(td) : ~CanFromDict(td[k])
             THEN [plans |-> pl, trash_bin |-> tr0,
                   printed |-> <<"Error loading data">>]
             ELSE [plans |-> pl, trash_bin |-> tr, printed |-> << >>]

\* FinanceTracker.__init__(data_file)
NewTracker(f) == load_data(<< >>, << >>, f)

\* ------------------------------------------------------------------ reports
RECURSIVE SumAmounts(_, _)
\* sum(plan.amount for plan in recs if plan.record_type == kind)
SumAmounts(recs, kind) ==
    IF Len(recs) = 0 THEN 0
    ELSE (IF Head(recs).record_type = kind THEN Head(recs).amount ELSE 0)
             + SumAmounts(Tail(recs), kind)

\* calculate_balance summing over the trashed records as well
calculate_balance_with_trash(pl, tr) ==
    LET total_income == SumAmounts(pl \o tr, "income")
        total_expenses == SumAmounts(pl \o tr, "expense")
    IN  [income |-> total_income, expenses |-> total_expenses,
         net_balance |-> total_income - total_expenses]

\* calculate_balance() of the tracker whose lists are pl, tr
calculate_balance(pl, tr) ==
    LET total_income == SumAmounts(pl, "income")
        total_expenses == SumAmounts(pl, "expense")
    IN  [income |-> total_income, expenses |-> total_expenses,
         net_balance |-> total_income - total_expenses]

\* the status line of display_balance_report
BalanceStatus(b) ==
    IF b.net_balance > 0 THEN "Status: Good. Save more!"
    ELSE IF b.net_balance < 0 THEN "Status: ALERT!!! You're out of balance!"
    ELSE "Status: Zero Balance, don't forget to save!"

\* [plan for plan in self.plans if plan.record_type == "expense" and plan.due_date]
upcoming_expenses(pl, tr) ==
    SelectSeq(pl, LAMBDA plan : plan.record_type = "expense" /\ Truthy(plan.due_date))

RECURSIVE InsertBeforeEqual(_, _)
\* x placed in front of the elements whose key equals x's: not stable
InsertBeforeEqual(done, x) ==
    IF Len(done) = 0 THEN <<x>>
    ELSE IF ~StrLess(Head(done).due_date.text, x.due_date.text)
         THEN <<x>> \o done
         ELSE <<Head(done)>> \o InsertBeforeEqual(Tail(done), x)

RECURSIVE InsertByDue(_, _)
\* x placed after every element whose key is not greater than x's
InsertByDue(done, x) ==
    IF Len(done) = 0 THEN <<x>>
    ELSE IF StrLess(x.due_date.text, Head(done).due_date.text)
         THEN <<x>> \o done
         ELSE <<Head(done)>> \o InsertByDue(Tail(done), x)

RECURSIVE SortedFrom(_, _)
SortedFrom(done, rest) ==
    IF Len(rest) = 0 THEN done
    ELSE SortedFrom(InsertByDue(done, Head(rest)), Tail(rest))

\* sorted(recs, key=lambda x: x.due_date): stable, ascending, keys compared by <
sorted(recs) == SortedFrom(<< >>, recs)

\* ------------------------------------------------------------- list methods
\* list.insert(0, r) in place of list.append(r)
ListInsertFront(l, r) == <<r>> \o l

\* list.append(r)
ListAppend(l, r) == Append(l, r)

\* a position counted from the end of the list
PopPosFromEnd(l, index) == IF index < 0 THEN Len(l) + index + 1 ELSE Len(l) - index

\* the position list.pop(index) removes, 1-based; a negative index counts
\* from the end
PopPos(l, index) == IF index < 0 THEN Len(l) + index + 1 ELSE index + 1

\* the list after list.pop(index)
ListPop(l, index) ==
    SubSeq(l, 1, PopPos(l, index) - 1) \o SubSeq(l, PopPos(l, index) + 1, Len(l))

\* the test of line 148 letting the negative indexes of Python through
InRangeSigned(index, n) == 0 - n <= index /\ index < n

\* the test of line 148
InRange(index, n) == 0 <= index /\ index < n

\* ------------------------------------------------------------------- state
VARIABLES
    plans,      \* self.plans
    trash_bin,  \* self.trash_bin
    file,       \* the file at self.data_file
    pc,         \* "menu", "delete_prompt" (inside the loop of delete_plan),
                \* "stopped" (the process has ended)
    op,         \* the operation that ran last
    index,      \* the local index of delete_plan; -1 outside it
    printed,    \* the messages the last operation printed
    shown,      \* the records the last operation listed, in order
    report,     \* the dict the last calculate_balance returned
    lastSave,   \* how the latest save_data of this run ended; "none" before it
    saveErrors, \* the calls of save_data of this run that ended in an OSError
    raised      \* the exception that left the last operation; "none" if none

vars == <<plans, trash_bin, file, pc, op, index, printed, shown, report,
          lastSave, saveErrors, raised>>

NoReport == [income |-> 0, expenses |-> 0, net_balance |-> 0]

\* ------------------------------------------------------------------ inputs
TextR == <<82>>

TextS == <<83>>

\* answers to "Enter record type", after strip().lower()
TypeInputs == {"plan", "allowance", "bill"}

\* answers to "Enter date (MM-DD-YYYY)": 01-05-2024 and 13-01-2024
DateInputs ==
    {Digits(1, 2) \o <<Char.dash>> \o Digits(5, 2) \o <<Char.dash>> \o Digits(2024, 4),
     Digits(13, 2) \o <<Char.dash>> \o Digits(1, 2) \o <<Char.dash>> \o Digits(2024, 4)}

\* answers to "Enter description": " " and " R "
DescriptionInputs == {<<Char.space>>, <<Char.space>> \o TextR \o <<Char.space>>}

\* answers to "Enter amount"
AmountInputs == {0, 5}

\* answers to "Enter due date": "", "2 " and "10"
DueInputs == {<< >>, <<Char.zero + 2, Char.space>>, <<Char.zero + 1, Char.zero>>}

\* answers to "Enter the number of the plan to delete" when the list has n
\* records: -1, 0 (cancel), every position, and the first number past the end
IndexInputs(n) == (0 - 1)..(n + 1)

\* arguments of FinancialRecord(...) when a caller builds the record itself
DirectArgs ==
    {[date |-> Date(2024, 2, 29), description |-> << >>, amount |-> 0 - 1,
      due_date |-> Str(<< >>), record_type |-> "expense"],
     [date |-> Date(2024, 2, 29), description |-> TextS, amount |-> 7,
      due_date |-> Str(<<Char.zero + 2>>), record_type |-> "income"]}

\* records of a data file found at start
ItemRent ==
    [date |-> isoformat(Date(2024, 1, 1)), description |-> TextR, amount |-> 5,
     due_date |-> Str(isoformat(Date(2024, 1, 5))), record_type |-> "expense"]

ItemSalary ==
    [date |-> isoformat(Date(2024, 1, 2)), description |-> TextS, amount |-> 20,
     due_date |-> None, record_type |-> "income"]

\* written before record_type and due_date existed
ItemOld ==
    [date |-> isoformat(Date(2023, 12, 31)), description |-> TextR, amount |-> 5]

\* month 13
ItemBadDate == [ItemRent EXCEPT !.date = Digits(2024, 4) \o <<Char.dash>>
                    \o Digits(13, 2) \o <<Char.dash>> \o Digits(1, 2)]

ItemNoAmount ==
    [date |-> isoformat(Date(2024, 1, 2)), description |-> TextS,
     due_date |-> None, record_type |-> "income"]

ItemZero == [ItemRent EXCEPT !.amount = 0]

InitFiles ==
    {AbsentFile,
     BrokenFile,
     json_dump([plans |-> <<ItemOld>>]),
     json_dump([plans |-> <<ItemRent>>, trash_bin |-> <<ItemSalary>>]),
     json_dump([plans |-> <<ItemBadDate>>, trash_bin |-> <<ItemSalary>>]),
     json_dump([plans |-> <<ItemRent>>, trash_bin |-> <<ItemNoAmount>>]),
     json_dump([plans |-> <<ItemZero>>, trash_bin |-> << >>])}

\* ----------------------------------------------------------------- actions
\* FinanceTracker(data_file) at the start of a process
Construct(f) ==
    LET t == NewTracker(f)
    IN  /\ plans = t.plans
        /\ trash_bin = t.trash_bin
        /\ file = f
        /\ pc = "menu"
        /\ op = "init"
        /\ index = 0 - 1
        /\ printed = t.printed
        /\ shown = << >>
        /\ report = NoReport
        /\ lastSave = "none"
        /\ saveErrors = 0
        /\ raised = "none"

Init == \E f \in InitFiles : Construct(f)

\* the identity of the next object made
NextOid == Len(plans) + Len(trash_bin) + 1

\* the lists become pl, tr and save_data() runs and ends as outcome;
\* after prints what the caller prints once save_data has returned
Mutate(pl, tr, outcome, name, after) ==
    /\ plans' = pl
    /\ trash_bin' = tr
    /\ file' \in save_data(pl, tr, file, outcome)
    /\ outcome = "oserror" => saveErrors < MaxSaveErrors
    /\ lastSave' = outcome
    /\ saveErrors' = IF outcome = "oserror" THEN saveErrors + 1 ELSE saveErrors
    /\ pc' = IF outcome = "killed" THEN "stopped" ELSE "menu"
    /\ printed' = IF outcome = "killed" THEN << >>
                  ELSE SaveMessages(outcome) \o after
    /\ op' = name
    /\ shown' = << >>
    /\ report' = NoReport
    /\ raised' = "none"

\* add_record(record) with a record the caller has just built
AddRecord ==
    /\ pc = "menu"
    /\ NextOid <= MaxRecords
    /\ \E a \in DirectArgs, outcome \in SaveOutcomes :
          Mutate(ListAppend(plans,
                     FinancialRecord(NextOid, a.date, a.description, a.amount,
                                     a.due_date, a.record_type)),
                 trash_bin, outcome, "add_record", << >>)
    /\ index' = 0 - 1

\* add_plan_interactive(): ty, dt, am are the answers that end the three
\* retry loops, de and du the answers to the description and due prompts
AddPlanInteractive ==
    /\ pc = "menu"
    /\ \E ty \in TypeInputs, dt \in DateInputs, de \in DescriptionInputs :
          /\ ty \in {"plan", "allowance"}
          /\ IsMDY(dt)
          /\ LET record_type == IF ty = "plan" THEN "expense" ELSE "income"
                 description == Strip(de)
             IN  \/ /\ description = << >>
                    /\ printed' = <<"Description cannot be empty.">>
                    /\ op' = "add_plan_interactive"
                    /\ pc' = "menu"
                    /\ shown' = << >>
                    /\ report' = NoReport
                    /\ raised' = "none"
                    /\ UNCHANGED <<plans, trash_bin, file, lastSave, saveErrors>>
                 \/ /\ description # << >>
                    /\ NextOid <= MaxRecords
                    /\ \E am \in AmountInputs, du \in DueInputs,
                          outcome \in SaveOutcomes :
                          /\ am > 0
                          /\ LET due_date ==
                                     IF record_type = "expense" /\ Strip(du) # << >>
                                     THEN Str(Strip(du)) ELSE None
                             IN  Mutate(ListAppend(plans,
                                            FinancialRecord(NextOid, strptime(dt),
                                                description, am, due_date,
                                                record_type)),
                                        trash_bin, outcome, "add_plan_interactive",
                                        <<"record added successfully!">>)
    /\ index' = 0 - 1

\* delete_plan() up to its first prompt: view_plans(), and the return of
\* line 141 when there is nothing to delete
DeletePlan ==
    /\ pc = "menu"
    /\ op' = "delete_plan"
    /\ IF Len(plans) = 0
       THEN /\ printed' = <<"No records to display.">>
            /\ pc' = "menu"
       ELSE /\ printed' = << >>
            /\ pc' = "delete_prompt"
    /\ shown' = plans
    /\ index' = 0 - 1
    /\ report' = NoReport
    /\ raised' = "none"
    /\ UNCHANGED <<plans, trash_bin, file, lastSave, saveErrors>>

\* one turn of the loop of delete_plan with a number i typed in (an answer
\* int() rejects only prints a message and asks again)
DeleteInput ==
    /\ pc = "delete_prompt"
    /\ \E i \in IndexInputs(Len(plans)) :
          /\ index' = i - 1
          /\ IF i - 1 = 0 - 1
             THEN /\ printed' = <<"Deletion cancelled.">>
                  /\ pc' = "menu"
                  /\ op' = "delete_plan"
                  /\ shown' = << >>
                  /\ report' = NoReport
                  /\ raised' = "none"
                  /\ UNCHANGED <<plans, trash_bin, file, lastSave, saveErrors>>
             ELSE IF InRange(i - 1, Len(plans))
             THEN \E outcome \in SaveOutcomes :
                     LET deleted_plan == plans[PopPos(plans, i - 1)]
                     IN  Mutate(ListPop(plans, i - 1),
                                ListAppend(trash_bin, deleted_plan),
                                outcome, "delete_plan", <<"Deleted">>)
             ELSE /\ printed' = <<"Invalid plan number. Please try again.">>
                  /\ pc' = "delete_prompt"
                  /\ op' = "delete_plan"
                  /\ shown' = << >>
                  /\ report' = NoReport
                  /\ raised' = "none"
                  /\ UNCHANGED <<plans, trash_bin, file, lastSave, saveErrors>>

\* display_balance_report()
DisplayBalanceReport ==
    /\ pc = "menu"
    /\ op' = "display_balance_report"
    /\ report' = calculate_balance(plans, trash_bin)
    /\ printed' = <<BalanceStatus(calculate_balance(plans, trash_bin))>>
    /\ shown' = << >>
    /\ raised' = "none"
    /\ UNCHANGED <<plans, trash_bin, file, lastSave, saveErrors, pc, index>>

\* view_upcoming_due_dates()
ViewUpcomingDueDates ==
    /\ pc = "menu"
    /\ op' = "view_upcoming_due_dates"
    /\ IF Len(upcoming_expenses(plans, trash_bin)) = 0
       THEN /\ printed' = <<"No upcoming due dates.">>
            /\ shown' = << >>
       ELSE /\ printed' = <<"Upcoming Due Dates:">>
            /\ shown' = sorted(upcoming_expenses(plans, trash_bin))
    /\ report' = NoReport
    /\ raised' = "none"
    /\ UNCHANGED <<plans, trash_bin, file, lastSave, saveErrors, pc, index>>

\* choice 5 of main(): tracker.export_data_to_file() is not defined, the
\* AttributeError leaves main() and the process ends
ExportData ==
    /\ pc = "menu"
    /\ op' = "export_data_to_file"
    /\ raised' = "AttributeError"
    /\ pc' = "stopped"
    /\ printed' = << >>
    /\ shown' = << >>
    /\ report' = NoReport
    /\ UNCHANGED <<plans, trash_bin, file, lastSave, saveErrors, index>>

\* the program is run again on the same data file: FinanceTracker()
Start ==
    /\ pc = "stopped"
    /\ LET t == NewTracker(file)
       IN  /\ plans' = t.plans
           /\ trash_bin' = t.trash_bin
           /\ printed' = t.printed
    /\ pc' = "menu"
    /\ op' = "init"
    /\ index' = 0 - 1
    /\ shown' = << >>
    /\ report' = NoReport
    /\ lastSave' = "none"
    /\ saveErrors' = 0
    /\ raised' = "none"
    /\ UNCHANGED file

Next ==
    \/ AddRecord
    \/ AddPlanInteractive
    \/ DeletePlan
    \/ DeleteInput
    \/ DisplayBalanceReport
    \/ ViewUpcomingDueDates
    \/ ExportData
    \/ Start

Spec == Init /\ [][Next]_vars

\* ------------------------------------------------------------ vocabulary
Range(l) == {l[k] : k \in 1..Len(l)}

\* the five fields of a record, without the identity of the object
Fields(r) ==
    [date |-> r.date, description |-> r.description, amount |-> r.amount,
     due_date |-> r.due_date, record_type |-> r.record_type]

FieldsOf(l) == [k \in 1..Len(l) |-> Fields(l[k])]

Oids(l) == {l[k].oid : k \in 1..Len(l)}

\* a step of delete_plan that read the number index' + 1
ReadsIndex == pc = "delete_prompt" /\ op' = "delete_plan"

\* a step of add_record or add_plan_interactive that reached self.plans.append
Adds ==
    /\ pc = "menu"
    /\ op' \in {"add_record", "add_plan_interactive"}
    /\ printed' # <<"Description cannot be empty.">>

\* ------------------------------------------------------------------ claims

\* C1: a delete of 1-based position i with 1 <= i <= len(active) removes
\* exactly the record at position i from active (the others keep their
\* order, the length drops by 1) and appends that record, all fields
\* unchanged, at the end of trash (length up by 1); the record is then in
\* trash and not in active, and no record is ever in both or twice in one.
NoRecordTwice ==
    /\ Cardinality(Oids(plans)) = Len(plans)
    /\ Cardinality(Oids(trash_bin)) = Len(trash_bin)
    /\ Oids(plans) \cap Oids(trash_bin) = {}

DeleteMoves ==
    (ReadsIndex /\ index' + 1 >= 1 /\ index' + 1 <= Len(plans)) =>
        LET i == index' + 1
            rec == plans[i]
        IN  /\ Len(plans') = Len(plans) - 1
            /\ \A k \in 1..Len(plans') :
                  plans'[k] = IF k < i THEN plans[k] ELSE plans[k + 1]
            /\ Len(trash_bin') = Len(trash_bin) + 1
            /\ SubSeq(trash_bin', 1, Len(trash_bin)) = trash_bin
            /\ trash_bin'[Len(trash_bin')] = rec
            /\ rec.oid \in Oids(trash_bin')
            /\ rec.oid \notin Oids(plans')

C1_DeleteMovesRecord == []NoRecordTwice /\ [][DeleteMoves]_vars

\* a record was deleted from a list that held another one
C1_Witness ==
    /\ op = "delete_plan"
    /\ "Deleted" \in Range(printed)
    /\ Len(plans) >= 1
    /\ Len(trash_bin) >= 1

\* C2 as stated: a delete request with i outside [1, len(active)] (i = 0,
\* negative i, i = len(active) + 1, any request when active is empty) leaves
\* active and trash unchanged and reports a range error.
C2_Original ==
    [][ ( \/ ReadsIndex /\ (index' + 1 < 1 \/ index' + 1 > Len(plans))
          \/ pc = "menu" /\ op' = "delete_plan" /\ Len(plans) = 0 )
        => /\ plans' = plans
           /\ trash_bin' = trash_bin
           /\ "Invalid plan number. Please try again." \in Range(printed') ]_vars

\* C2 amended: such a request leaves active, trash and the file unchanged;
\* i = 0 cancels the deletion and says so, any other i outside the range is
\* reported as an invalid number and the number is asked for again; when
\* active is empty no number is asked for and only the empty listing is
\* reported.
C2_OutOfRangeUnchanged ==
    [][ /\ (ReadsIndex /\ (index' + 1 < 1 \/ index' + 1 > Len(plans)))
           => /\ plans' = plans
              /\ trash_bin' = trash_bin
              /\ file' = file
              /\ IF index' + 1 = 0
                 THEN printed' = <<"Deletion cancelled.">> /\ pc' = "menu"
                 ELSE /\ printed' = <<"Invalid plan number. Please try again.">>
                      /\ pc' = "delete_prompt"
        /\ (pc = "menu" /\ op' = "delete_plan" /\ Len(plans) = 0)
           => /\ plans' = plans
              /\ trash_bin' = trash_bin
              /\ file' = file
              /\ printed' = <<"No records to display.">>
              /\ pc' = "menu" ]_vars

\* a negative number was rejected while two records were active
C2_Witness ==
    /\ pc = "delete_prompt"
    /\ printed = <<"Invalid plan number. Please try again.">>
    /\ index < 0 - 1
    /\ Len(plans) >= 2

\* C3: whenever the latest save of the run succeeded (or nothing was saved
\* yet), a new tracker built from the data file has active and trash lists
\* equal field by field, in the same order, to the lists in memory.
C3_SaveLoadIdentity ==
    lastSave \in {"none", "ok"} =>
        /\ FieldsOf(NewTracker(file).plans) = FieldsOf(plans)
        /\ FieldsOf(NewTracker(file).trash_bin) = FieldsOf(trash_bin)

\* a delete was saved with a record in each list, one of them an income
C3_Witness ==
    /\ lastSave = "ok"
    /\ op = "delete_plan"
    /\ Len(plans) >= 1
    /\ Len(trash_bin) >= 1
    /\ \E r \in Range(plans) \cup Range(trash_bin) : r.record_type = "income"

\* C4 as stated: when save_data fails on an unwritable location, the add or
\* delete surfaces a PersistenceError to its caller and does not report
\* success.
C4_SaveErrorSurfaced ==
    "Error saving data" \in Range(printed) =>
        /\ raised = "PersistenceError"
        /\ "record added successfully!" \notin Range(printed)
        /\ "Deleted" \notin Range(printed)

\* C5 as stated: a data file that exists and is malformed (not JSON, or one
\* record of plans or trash_bin that does not deserialize) loads to empty
\* active and empty trash, with the error reported.
Malformed(f) ==
    \/ ~f.valid
    \/ \E item \in Range(Get(f.doc, "plans", << >>))
                     \cup Range(Get(f.doc, "trash_bin", << >>)) :
          ~CanFromDict(item)

C5_MalformedLoadsEmpty ==
    (op = "init" /\ file.exists /\ Malformed(file)) =>
        /\ plans = << >>
        /\ trash_bin = << >>
        /\ "Error loading data" \in Range(printed)

\* C6: the balance report has income = the sum of amount over the active
\* income records, expenses = the sum over the active expense records and
\* net_balance = income - expenses, whatever is in trash; and deleting an
\* active expense of amount a lowers expenses by a and raises net_balance by
\* a, leaving income as it was.
RECURSIVE AmountOver(_, _)
\* the sum of l[k].amount over the positions k in S
AmountOver(l, S) ==
    IF S = {} THEN 0
    ELSE LET k == CHOOSE x \in S : TRUE
         IN  l[k].amount + AmountOver(l, S \ {k})

OfKind(l, kind) == {k \in 1..Len(l) : l[k].record_type = kind}

ReportIsActiveSums ==
    op = "display_balance_report" =>
        /\ report.income = AmountOver(plans, OfKind(plans, "income"))
        /\ report.expenses = AmountOver(plans, OfKind(plans, "expense"))
        /\ report.net_balance = report.income - report.expenses

DeleteExpenseRaisesNet ==
    (ReadsIndex /\ index' + 1 >= 1 /\ index' + 1 <= Len(plans)
         /\ plans[index' + 1].record_type = "expense") =>
        LET a == plans[index' + 1].amount
            before == calculate_balance(plans, trash_bin)
            after == calculate_balance(plans', trash_bin')
        IN  /\ after.expenses = before.expenses - a
            /\ after.net_balance = before.net_balance + a
            /\ after.income = before.income

C6_BalanceOverActive == []ReportIsActiveSums /\ [][DeleteExpenseRaisesNet]_vars

\* a report was made with a record of non-zero amount in trash and one active
C6_Witness ==
    /\ op = "display_balance_report"
    /\ Len(plans) >= 1
    /\ \E r \in Range(trash_bin) : r.amount # 0
    /\ report.net_balance # 0

\* C7 as stated: every record in active or trash has amount > 0 and a
\* description that is not empty.
C7_RecordsValid ==
    \A r \in Range(plans) \cup Range(trash_bin) :
        r.amount > 0 /\ r.description # << >>

\* C8: an add appends the new record at the end of active and changes
\* neither the order of the records already there nor trash; so active
\* always holds the surviving records in the order they were added
\* (objects are made, and numbered, in the order of the adds).
InAddOrder ==
    \A j, k \in 1..Len(plans) : j < k => plans[j].oid < plans[k].oid

AddAppends ==
    Adds =>
        /\ Len(plans') = Len(plans) + 1
        /\ SubSeq(plans', 1, Len(plans)) = plans
        /\ plans'[Len(plans')].oid \notin Oids(plans) \cup Oids(trash_bin)
        /\ trash_bin' = trash_bin

C8_AddKeepsCallOrder == []InAddOrder /\ [][AddAppends]_vars

\* a record was added behind another one
C8_Witness ==
    /\ op \in {"add_record", "add_plan_interactive"}
    /\ Len(plans) >= 2
    /\ lastSave # "none"

\* C9: the upcoming-due listing holds exactly the active expense records
\* whose due_date is neither None nor empty (no income record, no trashed
\* record), in ascending lexicographic order of due_date, records of equal
\* due_date in their order in active; making it changes neither list.
\* a <= b on str, by the first position where they differ
LexLeq(a, b) ==
    \E n \in 0..Len(a) :
        /\ n <= Len(b)
        /\ \A k \in 1..n : a[k] = b[k]
        /\ \/ n = Len(a)
           \/ n < Len(b) /\ a[n + 1] < b[n + 1]

PositionIn(l, oid) == CHOOSE k \in 1..Len(l) : l[k].oid = oid

UpcomingListing ==
    (pc = "menu" /\ op' = "view_upcoming_due_dates") =>
        /\ plans' = plans
        /\ trash_bin' = trash_bin
        /\ Range(shown') =
              {r \in Range(plans) : r.record_type = "expense"
                                      /\ ~r.due_date.null
                                      /\ r.due_date.text # << >>}
        /\ Cardinality(Range(shown')) = Len(shown')
        /\ \A j, k \in 1..Len(shown') :
              j < k =>
                /\ LexLeq(shown'[j].due_date.text, shown'[k].due_date.text)
                /\ shown'[j].due_date.text = shown'[k].due_date.text
                      => PositionIn(plans, shown'[j].oid)
                             < PositionIn(plans, shown'[k].oid)

C9_UpcomingDueListing == [][UpcomingListing]_vars

\* two records were listed, the later one of active first
C9_Witness ==
    /\ op = "view_upcoming_due_dates"
    /\ Len(shown) = 2
    /\ shown[1].oid > shown[2].oid

\* C10 as stated: when the process is stopped during a save, the data file
\* holds the complete state saved before or the complete new state.
C10_SaveAtomic ==
    [][ (pc # "stopped" /\ pc' = "stopped" /\ lastSave' = "killed") =>
            \/ file' = file
            \/ file' = json_dump(SaveDoc(plans', trash_bin')) ]_vars

====
